---- MODULE Spec2Model ----
(***************************************************************************)
(* Model of the two helper scripts of the repository:                      *)
(*   scripts/fix-syntax.py          (the Patcher)                          *)
(*   scripts/generate-pwa-icons.py  (the Icon Generator)                   *)
(* Each script is a process whose program counter walks through the        *)
(* statements of its module body; the file system is the shared state.     *)
(* Text is a sequence of one-character strings, so that str.replace and    *)
(* the text-mode newline translation operate character by character.       *)
(***************************************************************************)
EXTENDS Integers, Sequences, FiniteSets, TLC

VARIABLES
  fs,       \* the file system: path -> entry
  fs0,      \* the file system the scripts were started on (never changes)
  env,      \* what the environment permits (never changes)
  pcP,      \* the Patcher's position
  content,  \* the Patcher's variable content
  outP,     \* the Patcher's standard output
  errP,     \* the exception that ended the Patcher, "" if none
  run,      \* the number of the Patcher's run
  after,    \* the file as each completed run of the Patcher left it
  pcI,      \* the Icon Generator's position
  call,     \* which call of create_icon is in hand
  img,      \* create_icon's canvas
  font,     \* create_icon's font
  outI,     \* the Icon Generator's standard output
  errI,     \* the call that raised and ended the Icon Generator, "" if none
  iolog     \* the changes the Icon Generator made to the file system, in order

vars ==
  <<fs, fs0, env, pcP, content, outP, errP, run, after,
    pcI, call, img, font, outI, errI, iolog>>
varsP == <<pcP, content, outP, errP, run, after>>
varsI == <<pcI, call, img, font, outI, errI, iolog>>

(***************************************************************************)
(* Bounds of the model.                                                    *)
(***************************************************************************)
\* the initial text of story-library.tsx is a concatenation of at most
\* MaxChunks chunks of Chunks
MaxChunks == 3

\* the Patcher is run at most MaxRuns times in succession
MaxRuns == 2

(***************************************************************************)
(* Paths.                                                                  *)
(***************************************************************************)
\* fix-syntax.py:5 and :12, the one file the Patcher opens
story_path == "client/src/pages/story-library.tsx"

\* generate-pwa-icons.py:74
public_dir == "client/public"

\* os.path.join on POSIX for a relative second component
os_path_join(a, b) == a \o "/" \o b

\* an unrelated file that may already be in client/public
other_path == os_path_join(public_dir, "manifest.json")

\* generate-pwa-icons.py:79-80, the two calls of create_icon in program order,
\* each <<size, output_path>>
Calls ==
  << <<192, os_path_join(public_dir, "icon-192x192.png")>>,
     <<512, os_path_join(public_dir, "icon-512x512.png")>> >>

call_size(k) == Calls[k][1]

\* an output path that is not kept apart from the Patcher's file
call_path_shared(k) == IF k = 1 THEN story_path ELSE Calls[k][2]

call_path(k) == Calls[k][2]

IconPaths == {call_path(k) : k \in DOMAIN Calls}

Paths == {story_path, public_dir, other_path} \cup IconPaths

(***************************************************************************)
(* File-system entries.                                                    *)
(***************************************************************************)
Absent == [kind |-> "absent"]
Dir == [kind |-> "dir"]
TextFile(s) == [kind |-> "text", data |-> s]
PngFile(i) == [kind |-> "png", image |-> i]
\* what a failed img.save may leave behind: a truncated, undecodable file
PartialFile == [kind |-> "partial"]

(***************************************************************************)
(* The Patcher's strings (fix-syntax.py:9).                                *)
(***************************************************************************)
\* r"(\{UIMessages.getLabel('STORY_PRIVATE_LABEL')\})": a raw string, the
\* backslashes are characters of the pattern
find_pattern ==
  << "(", "\\", "{", "U", "I", "M", "e", "s", "s", "a", "g", "e",
     "s", ".", "g", "e", "t", "L", "a", "b", "e", "l", "(", "'",
     "S", "T", "O", "R", "Y", "_", "P", "R", "I", "V", "A", "T",
     "E", "_", "L", "A", "B", "E", "L", "'", ")", "\\", "}", ")" >>

\* "({UIMessages.getLabel('STORY_PRIVATE_LABEL')})"
replacement ==
  << "(", "{", "U", "I", "M", "e", "s", "s", "a", "g", "e", "s",
     ".", "g", "e", "t", "L", "a", "b", "e", "l", "(", "'", "S",
     "T", "O", "R", "Y", "_", "P", "R", "I", "V", "A", "T", "E",
     "_", "L", "A", "B", "E", "L", "'", ")", "}", ")" >>

\* fix-syntax.py:15
fixed_message == "Fixed syntax error in story-library.tsx"

(***************************************************************************)
(* Strings are indexed from 1 here; str.find's "not found" (-1 in Python)  *)
(* is 0.                                                                   *)
(***************************************************************************)
\* s.find(sub, start): the lowest index >= start at which sub occurs in s
str_find(s, sub, start) ==
  LET I == {i \in start .. (Len(s) - Len(sub) + 1) : SubSeq(s, i, i + Len(sub) - 1) = sub}
  IN  IF I = {} THEN 0 ELSE CHOOSE i \in I : \A j \in I : i <= j

(***************************************************************************)
(* str.replace(old, new) with no count: every non-overlapping occurrence   *)
(* of old, found left to right, is replaced (old is never empty here).     *)
(***************************************************************************)
RECURSIVE replace_from(_, _, _, _)
replace_from(s, old, new, i) ==
  LET j == str_find(s, old, i)
  IN  IF j = 0
        THEN SubSeq(s, i, Len(s))
        ELSE SubSeq(s, i, j - 1) \o new \o replace_from(s, old, new, j + Len(old))

\* the bug a reader of "replace the first occurrence" would write:
\* str.replace(old, new, 1)
str_replace_first(s, old, new) ==
  LET j == str_find(s, old, 1)
  IN  IF j = 0
        THEN s
        ELSE SubSeq(s, 1, j - 1) \o new \o SubSeq(s, j + Len(old), Len(s))

str_replace(s, old, new) == replace_from(s, old, new, 1)

(***************************************************************************)
(* Text-mode file I/O, open(path, 'r') / open(path, 'w') with the default  *)
(* newline=None on POSIX: reading translates "\r\n" and a lone "\r" to     *)
(* "\n"; writing translates "\n" to os.linesep, which is "\n".             *)
(***************************************************************************)
RECURSIVE read_text_from(_, _)
read_text_from(s, i) ==
  LET j == str_find(s, <<"\r">>, i)
  IN  IF j = 0
        THEN SubSeq(s, i, Len(s))
        ELSE SubSeq(s, i, j - 1) \o <<"\n">> \o
             read_text_from(s, IF j < Len(s) /\ s[j + 1] = "\n" THEN j + 2 ELSE j + 1)

read_text(s) == read_text_from(s, 1)

write_text(s) == s

(***************************************************************************)
(* Initial contents of story-library.tsx.                                  *)
(***************************************************************************)
Chunks ==
  { find_pattern, replacement, <<"x">>, <<"(", "\\">>, <<"\\", "}", ")">>,
    <<"\r">>, <<"\n">> }

RECURSIVE Contents(_)
Contents(n) ==
  IF n = 0
    THEN {<<>>}
    ELSE LET prev == Contents(n - 1)
         IN  prev \cup {c \o k : c \in prev, k \in Chunks}

StoryEntries == {Absent} \cup {TextFile(c) : c \in Contents(MaxChunks)}

(***************************************************************************)
(* The Patcher, fix-syntax.py.                                             *)
(***************************************************************************)
\* lines 5-6: with open(path, 'r') as f: content = f.read()
P_Read ==
  /\ pcP = "read"
  /\ fs[story_path].kind = "text"
  /\ content' = read_text(fs[story_path].data)
  /\ pcP' = "replace"
  /\ UNCHANGED <<fs, fs0, env, outP, errP, run, after, varsI>>

\* line 5 raises FileNotFoundError: the traceback ends the process
P_ReadFail ==
  /\ pcP = "read"
  /\ fs[story_path].kind # "text"
  /\ pcP' = "error"
  /\ errP' = "FileNotFoundError"
  /\ UNCHANGED <<fs, fs0, env, content, outP, run, after, varsI>>

\* line 9
P_Replace ==
  /\ pcP = "replace"
  /\ content' = str_replace(content, find_pattern, replacement)
  /\ pcP' = "open_w"
  /\ UNCHANGED <<fs, fs0, env, outP, errP, run, after, varsI>>

\* what open(path, 'w') does to the file it opens
open_write_keep(e) == e

open_write(e) == TextFile(<<>>)

\* line 12: open(path, 'w') truncates the file
P_OpenWrite ==
  /\ pcP = "open_w"
  /\ env.storyWritable
  /\ fs' = [fs EXCEPT ![story_path] = open_write(@)]
  /\ pcP' = "write"
  /\ UNCHANGED <<fs0, env, content, outP, errP, run, after, varsI>>

\* line 12 raises PermissionError, the file is not touched
P_OpenWriteFail ==
  /\ pcP = "open_w"
  /\ ~env.storyWritable
  /\ pcP' = "error"
  /\ errP' = "PermissionError"
  /\ UNCHANGED <<fs, fs0, env, content, outP, run, after, varsI>>

\* line 13 and the close at the end of the with block
P_Write ==
  /\ pcP = "write"
  /\ fs' = [fs EXCEPT ![story_path] = TextFile(write_text(content))]
  /\ pcP' = "print"
  /\ UNCHANGED <<fs0, env, content, outP, errP, run, after, varsI>>

\* line 13 or the flush on close raises OSError (disk full, I/O error): some
\* proper prefix of the text has reached the file
P_WriteFail ==
  /\ pcP = "write"
  /\ \E n \in 0 .. (Len(content) - 1) :
       fs' = [fs EXCEPT ![story_path] = TextFile(SubSeq(write_text(content), 1, n))]
  /\ pcP' = "error"
  /\ errP' = "OSError"
  /\ UNCHANGED <<fs0, env, content, outP, run, after, varsI>>

\* line 15
P_Print ==
  /\ pcP = "print"
  /\ outP' = Append(outP, fixed_message)
  /\ pcP' = "done"
  /\ after' = Append(after, fs[story_path])
  /\ UNCHANGED <<fs, fs0, env, content, errP, run, varsI>>

\* the script is started again once it has ended without an error
P_Rerun ==
  /\ pcP = "done"
  /\ run < MaxRuns
  /\ run' = run + 1
  /\ pcP' = "read"
  /\ content' = <<>>
  /\ outP' = <<>>
  /\ UNCHANGED <<fs, fs0, env, errP, after, varsI>>

PatcherNext ==
  \/ P_Read
  \/ P_ReadFail
  \/ P_Replace
  \/ P_OpenWrite
  \/ P_OpenWriteFail
  \/ P_Write
  \/ P_WriteFail
  \/ P_Print

\* the Patcher run up to MaxRuns times in succession
PatcherRuns ==
  \/ PatcherNext
  \/ P_Rerun

(***************************************************************************)
(* The Icon Generator, generate-pwa-icons.py.                              *)
(***************************************************************************)
\* line 15
margin(size) == size \div 8

\* line 16
book_width(size) == size - (2 * margin(size))

\* a height that makes size - book_height even: the rounding a reader of
\* "vertically centered" expects
book_height_even(size) ==
  LET h == (book_width(size) * 8) \div 10
  IN  IF (size - h) % 2 = 0 THEN h ELSE h + 1

\* line 17: int(book_width * 0.8); the product is never negative and int()
\* truncates, so this is the floor of 8 * book_width / 10
book_height(size) == (book_width(size) * 8) \div 10

\* line 18
book_top(size) == (size - book_height(size)) \div 2

\* line 22: the corners [x0, y0, x1, y1] handed to draw.rectangle
book_box(size) ==
  <<margin(size), book_top(size), size - margin(size), book_top(size) + book_height(size)>>

\* line 29
spine_x(size) == size \div 2

\* lines 30-34
spine_line(size) ==
  <<spine_x(size), book_top(size), spine_x(size), book_top(size) + book_height(size)>>

\* lines 37-50: range(3), offset = (i + 1) * 3, a left and a right line each
page_lines(size) ==
  [j \in 1 .. 6 |->
     LET i == (j - 1) \div 2
         offset == (i + 1) * 3
     IN  IF j % 2 = 1
           THEN <<margin(size) + offset, book_top(size) + offset,
                  spine_x(size) - offset, book_top(size) + offset>>
           ELSE <<spine_x(size) + offset, book_top(size) + offset,
                  size - margin(size) - offset, book_top(size) + offset>>]

\* a canvas whose height is not the requested one
Image_new_wrong(size) ==
  [size |-> <<size, size \div 2>>, mode |-> "RGB", color |-> "#3b82f6", prims |-> <<>>]

\* line 11: Image.new('RGB', (size, size), color='#3b82f6')
Image_new(size) ==
  [size |-> <<size, size>>, mode |-> "RGB", color |-> "#3b82f6", prims |-> <<>>]

\* lines 21-50 applied to a canvas
draw_book(i, size) ==
  [i EXCEPT !.prims =
     @ \o << [op |-> "rectangle", xy |-> book_box(size)],
             [op |-> "line", xy |-> spine_line(size)] >>
       \o [j \in 1 .. 6 |-> [op |-> "line", xy |-> page_lines(size)[j]]]]

\* lines 60-67: the glyph "S" drawn with the font in hand (its position comes
\* from the font's own measurement, draw.textbbox)
draw_text(i, f) ==
  [i EXCEPT !.prims = Append(@, [op |-> "text", text |-> "S", font |-> f])]

NoImage == [size |-> <<0, 0>>, mode |-> "none", color |-> "none", prims |-> <<>>]

\* an icon left by an earlier tool, not by this script
OldImage == [size |-> <<64, 64>>, mode |-> "RGBA", color |-> "none", prims |-> <<>>]

\* line 71
created_message(path) == "Created " \o path

\* line 82
success_message == "PWA icons generated successfully!"

\* lines 57-58: the handler of the font load, where create_icon goes on
on_font_error_raise == [pc |-> "error", font |-> "none", err |-> "ImageFont.truetype"]

on_font_error == [pc |-> "text", font |-> "default", err |-> ""]

\* what follows a failing create_icon: the exception is not caught by the
\* module body, which handles nothing and removes nothing
on_save_error_cleanup(f) ==
  [p \in DOMAIN f |->
     IF p \in IconPaths THEN Absent ELSE f[p]]

on_save_error(f) == f

\* os.path.exists
os_path_exists_never(f, p) == FALSE

os_path_exists(f, p) == f[p].kind # "absent"

\* line 75: if not os.path.exists(public_dir)
I_Exists ==
  /\ pcI = "exists"
  /\ pcI' = IF ~os_path_exists(fs, public_dir) THEN "makedirs" ELSE "new"
  /\ UNCHANGED <<fs, fs0, env, call, img, font, outI, errI, iolog, varsP>>

\* line 76
I_Makedirs ==
  /\ pcI = "makedirs"
  /\ env.mkdirOk
  /\ ~os_path_exists(fs, public_dir)
  /\ fs' = [fs EXCEPT ![public_dir] = Dir]
  /\ iolog' = Append(iolog, <<"mkdir", public_dir>>)
  /\ pcI' = "new"
  /\ UNCHANGED <<fs0, env, call, img, font, outI, errI, varsP>>

\* line 76 raises OSError: PermissionError, or FileExistsError when the
\* directory is already there (exist_ok is not given)
I_MakedirsFail ==
  /\ pcI = "makedirs"
  /\ ~env.mkdirOk \/ os_path_exists(fs, public_dir)
  /\ pcI' = "error"
  /\ errI' = "os.makedirs"
  /\ UNCHANGED <<fs, fs0, env, call, img, font, outI, iolog, varsP>>

\* lines 11-12 of the call in hand
I_New ==
  /\ pcI = "new"
  /\ img' = Image_new(call_size(call))
  /\ pcI' = "book"
  /\ UNCHANGED <<fs, fs0, env, call, font, outI, errI, iolog, varsP>>

\* lines 14-50
I_Book ==
  /\ pcI = "book"
  /\ img' = draw_book(img, call_size(call))
  /\ pcI' = "font"
  /\ UNCHANGED <<fs, fs0, env, call, font, outI, errI, iolog, varsP>>

\* lines 55-56: ImageFont.truetype finds the DejaVu font
I_FontLoad ==
  /\ pcI = "font"
  /\ env.fontOk
  /\ font' = "truetype"
  /\ pcI' = "text"
  /\ UNCHANGED <<fs, fs0, env, call, img, outI, errI, iolog, varsP>>

\* lines 56-58: ImageFont.truetype raises, the bare except takes over
I_FontFail ==
  /\ pcI = "font"
  /\ ~env.fontOk
  /\ font' = on_font_error.font
  /\ pcI' = on_font_error.pc
  /\ errI' = on_font_error.err
  /\ UNCHANGED <<fs, fs0, env, call, img, outI, iolog, varsP>>

\* lines 60-67
I_Text ==
  /\ pcI = "text"
  /\ img' = draw_text(img, font)
  /\ pcI' = "save"
  /\ UNCHANGED <<fs, fs0, env, call, font, outI, errI, iolog, varsP>>

\* line 70: img.save(output_path, 'PNG') creates or overwrites the file
I_Save ==
  /\ pcI = "save"
  /\ fs[public_dir].kind = "dir"
  /\ fs' = [fs EXCEPT ![call_path(call)] = PngFile(img)]
  /\ iolog' = Append(iolog, <<"write", call_path(call)>>)
  /\ pcI' = "print"
  /\ UNCHANGED <<fs0, env, call, img, font, outI, errI, varsP>>

\* line 70 raises OSError: the open failed (file untouched), or the write
\* failed and the file is left truncated or is removed again
I_SaveFail ==
  /\ pcI = "save"
  /\ \E left \in {fs[call_path(call)], Absent, PartialFile} :
       fs' = on_save_error([fs EXCEPT ![call_path(call)] = left])
  /\ pcI' = "error"
  /\ errI' = "img.save"
  /\ UNCHANGED <<fs0, env, call, img, font, outI, iolog, varsP>>

\* line 71 and the return to the module body, line 79 to 80 or 80 to 82
I_Print ==
  /\ pcI = "print"
  /\ outI' = Append(outI, created_message(call_path(call)))
  /\ img' = NoImage
  /\ font' = "none"
  /\ IF call < Len(Calls)
       THEN call' = call + 1 /\ pcI' = "new"
       ELSE call' = call /\ pcI' = "final"
  /\ UNCHANGED <<fs, fs0, env, errI, iolog, varsP>>

\* line 82
I_Final ==
  /\ pcI = "final"
  /\ outI' = Append(outI, success_message)
  /\ pcI' = "done"
  /\ UNCHANGED <<fs, fs0, env, call, img, font, errI, iolog, varsP>>

IconNext ==
  \/ I_Exists
  \/ I_Makedirs
  \/ I_MakedirsFail
  \/ I_New
  \/ I_Book
  \/ I_FontLoad
  \/ I_FontFail
  \/ I_Text
  \/ I_Save
  \/ I_SaveFail
  \/ I_Print
  \/ I_Final

(***************************************************************************)
(* Initial states and specifications.                                      *)
(***************************************************************************)
\* client/public is missing, or is there with any of the icons and the
\* unrelated file already in it
PublicStates ==
  { f \in [Paths \ {story_path} ->
             {Absent, Dir, TextFile(<<"{", "}">>), PngFile(OldImage)}] :
      /\ f[public_dir].kind \in {"absent", "dir"}
      /\ f[other_path].kind \in {"absent", "text"}
      /\ \A p \in DOMAIN f \cap IconPaths : f[p].kind \in {"absent", "png"}
      /\ f[public_dir].kind = "absent" =>
           \A p \in Paths \ {story_path, public_dir} : f[p].kind = "absent" }

FileSystem(story, pub) ==
  [p \in Paths |-> IF p = story_path THEN story ELSE pub[p]]

Envs == [storyWritable : BOOLEAN, mkdirOk : BOOLEAN, fontOk : BOOLEAN]

InitProcs ==
  /\ fs0 = fs
  /\ pcP = "read"
  /\ content = <<>>
  /\ outP = <<>>
  /\ errP = ""
  /\ run = 1
  /\ after = <<>>
  /\ errI = ""
  /\ pcI = "exists"
  /\ call = 1
  /\ img = NoImage
  /\ font = "none"
  /\ outI = <<>>
  /\ iolog = <<>>

EmptyPublic == [p \in Paths \ {story_path} |-> Absent]

\* the Patcher alone, over every bounded text
InitPatcher ==
  /\ \E story \in StoryEntries : fs = FileSystem(story, EmptyPublic)
  /\ \E w \in BOOLEAN : env = [storyWritable |-> w, mkdirOk |-> TRUE, fontOk |-> TRUE]
  /\ InitProcs

SpecPatcher == InitPatcher /\ [][PatcherRuns]_vars

\* the Icon Generator alone
InitIcon ==
  /\ \E pub \in PublicStates : fs = FileSystem(TextFile(find_pattern), pub)
  /\ env \in Envs
  /\ InitProcs

SpecIcon == InitIcon /\ [][IconNext]_vars

\* both scripts started together; the texts that tell the Patcher's outcomes
\* apart: none, no occurrence, one, two
ConcurrentStories ==
  { Absent, TextFile(<<>>), TextFile(<<"x", "\r", "\n">>), TextFile(find_pattern),
    TextFile(find_pattern \o <<"\n">> \o find_pattern) }

Init ==
  /\ \E story \in ConcurrentStories, pub \in PublicStates : fs = FileSystem(story, pub)
  /\ env \in Envs
  /\ InitProcs

Next == PatcherNext \/ IconNext

Spec == Init /\ [][Next]_vars

(***************************************************************************)
(* Properties of the Patcher, checked under SpecPatcher.                   *)
(***************************************************************************)
\* where find_pattern occurs in a text
Occurrences(t) ==
  {i \in 1 .. (Len(t) - Len(find_pattern) + 1) :
     SubSeq(t, i, i + Len(find_pattern) - 1) = find_pattern}

\* the pattern and the replacement differ in the pattern's two backslashes,
\* its 2nd character and its 3rd from the end: these are their places in an
\* occurrence that starts at i
Backslashes(i) == {i + 1, i + Len(find_pattern) - 3}

\* t without the characters at the places D, every other character kept in order
DeleteAt(t, D) ==
  LET Gone == D \cap (1 .. Len(t))
      n == Cardinality(Gone)
  IN  [j \in 1 .. (Len(t) - n) |->
         t[CHOOSE i \in j .. (j + n) :
             i \notin Gone /\ i - Cardinality({d \in Gone : d < i}) = j]]

\* t with every occurrence of the pattern turned into the replacement
EveryOccurrenceFixed(t) ==
  DeleteAt(t, UNION {Backslashes(i) : i \in Occurrences(t)})

\* t with only its first occurrence turned into the replacement
FirstOccurrenceFixed(t) ==
  IF Occurrences(t) = {}
    THEN t
    ELSE DeleteAt(t, Backslashes(CHOOSE i \in Occurrences(t) : \A j \in Occurrences(t) : i <= j))

\* t with "\r\n" and every other "\r" turned into "\n"
LineEndingsAsLF(t) ==
  LET Kept == {i \in 1 .. Len(t) : ~(t[i] = "\n" /\ i > 1 /\ t[i - 1] = "\r")}
      u == [i \in 1 .. Len(t) |-> IF t[i] = "\r" THEN "\n" ELSE t[i]]
  IN  DeleteAt(u, (1 .. Len(t)) \ Kept)

HasCR(t) == \E i \in 1 .. Len(t) : t[i] = "\r"

StoryWasText == fs0[story_path].kind = "text"

FirstRunDone == Len(after) >= 1

\* C1 as stated: after a run on a text that contains the pattern, the file
\* is the input with only the first occurrence replaced and every other
\* character unchanged (taken on texts without a carriage return, which the
\* read leaves as they are). Violated by a text with two occurrences.
C1_FirstOccurrenceOnly ==
  (FirstRunDone /\ StoryWasText /\ Occurrences(fs0[story_path].data) # {}
     /\ ~HasCR(fs0[story_path].data))
    => after[1] = TextFile(FirstOccurrenceFixed(fs0[story_path].data))

\* C1 amended: after a run on a text that contains the pattern, the file is
\* the input as read in text mode (line endings as "\n") with every
\* occurrence of the pattern replaced, each losing its two backslashes, and
\* every other character unchanged.
C1_EveryOccurrence ==
  (FirstRunDone /\ StoryWasText /\ Occurrences(fs0[story_path].data) # {})
    => after[1] = TextFile(EveryOccurrenceFixed(LineEndingsAsLF(fs0[story_path].data)))

\* a run has ended on a text with two occurrences, and both are replaced
C1_Witness ==
  /\ FirstRunDone
  /\ StoryWasText
  /\ Cardinality(Occurrences(fs0[story_path].data)) >= 2
  /\ Occurrences(after[1].data) = {}
  /\ Len(after[1].data) = Len(fs0[story_path].data) - 4

\* C2 as stated: after a successful run on a text without the pattern the
\* file is what it was, and the confirmation message has been printed.
\* Violated by a text with a carriage return, which is written back as "\n".
C2_NoPatternNoChange ==
  (pcP = "done" /\ run = 1 /\ StoryWasText /\ Occurrences(fs0[story_path].data) = {})
    => (fs[story_path] = fs0[story_path] /\ outP = <<fixed_message>>)

\* C3: a second run in succession leaves the file as the first run left it.
C3_Idempotent ==
  \A k \in 2 .. Len(after) : after[k] = after[1]

\* two runs have ended, the first of which replaced two occurrences
C3_Witness ==
  /\ Len(after) >= 2
  /\ StoryWasText
  /\ Cardinality(Occurrences(fs0[story_path].data)) >= 2
  /\ after[1] # fs0[story_path]
  /\ pcP = "done"

\* the file as the run in hand found it
BeforeRun == IF run = 1 THEN fs0[story_path] ELSE after[run - 1]

\* C8: the file is empty from the moment it is opened for writing until the
\* text is written, and when the write fails the file holds neither what the
\* run found nor the patched text, and the run prints no confirmation.
C8_WriteNotAtomic ==
  /\ pcP = "write" => fs[story_path] = TextFile(<<>>)
  /\ (pcP = "error" /\ errP = "OSError") =>
       /\ fs[story_path].kind = "text"
       /\ fs[story_path] # BeforeRun
       /\ fs[story_path] # TextFile(write_text(content))
       /\ outP = <<>>
       /\ Len(after) = run - 1

\* the write failed on the first run: the text with the pattern is gone, the
\* file is empty
C8_Witness ==
  /\ pcP = "error"
  /\ errP = "OSError"
  /\ run = 1
  /\ Occurrences(fs0[story_path].data) # {}
  /\ fs[story_path] = TextFile(<<>>)

(***************************************************************************)
(* Properties of the Icon Generator, checked under SpecIcon.               *)
(***************************************************************************)
Icon192 == "client/public/icon-192x192.png"
Icon512 == "client/public/icon-512x512.png"

\* the paths the Icon Generator has written, and the entries of its log
WrittenPaths == {iolog[n][2] : n \in {m \in DOMAIN iolog : iolog[m][1] = "write"}}
MkdirCount == Cardinality({m \in DOMAIN iolog : iolog[m][1] = "mkdir"})

IsSquarePng(e, size) == e.kind = "png" /\ e.image.size = <<size, size>>

\* C4: a run that ends without error wrote exactly icon-192x192.png and
\* icon-512x512.png, each holds an image of the size in its name, and no
\* other path has changed.
C4_TwoIconsOfTheirSize ==
  pcI = "done" =>
    /\ WrittenPaths = {Icon192, Icon512}
    /\ IsSquarePng(fs[Icon192], 192)
    /\ IsSquarePng(fs[Icon512], 512)
    /\ \A p \in Paths \ {Icon192, Icon512, public_dir} : fs[p] = fs0[p]

\* the run has ended and has replaced two icons of another size
C4_Witness ==
  /\ pcI = "done"
  /\ fs0[Icon192] = PngFile(OldImage)
  /\ fs0[Icon512] = PngFile(OldImage)
  /\ fs[Icon192].image.size = <<192, 192>>
  /\ fs[Icon512].image.size = <<512, 512>>

\* C5: started without client/public, the run creates it before it writes
\* any icon, and at its end the directory and both icons are there; started
\* with client/public, the run never calls makedirs and leaves the other
\* contents of the directory alone.
C5_DirectoryFirst ==
  /\ WrittenPaths # {} => fs[public_dir] = Dir
  /\ (fs0[public_dir] = Absent /\ pcI \notin {"exists", "makedirs", "error"}) =>
       (iolog # <<>> /\ iolog[1] = <<"mkdir", public_dir>>)
  /\ (fs0[public_dir] = Absent /\ pcI = "done") =>
       (fs[public_dir] = Dir /\ fs[Icon192].kind = "png" /\ fs[Icon512].kind = "png")
  /\ fs0[public_dir] = Dir =>
       /\ pcI # "makedirs"
       /\ errI # "os.makedirs"
       /\ MkdirCount = 0
       /\ fs[public_dir] = Dir
       /\ fs[other_path] = fs0[other_path]
  /\ MkdirCount <= 1

\* the run started without the directory and has ended with it and the icons
C5_Witness ==
  /\ fs0[public_dir] = Absent
  /\ pcI = "done"
  /\ iolog = << <<"mkdir", public_dir>>, <<"write", Icon192>>, <<"write", Icon512>> >>

\* the run started with the directory and a file in it, and has ended
C5_WitnessExisting ==
  /\ fs0[public_dir] = Dir
  /\ fs0[other_path].kind = "text"
  /\ pcI = "done"

\* the font of the glyph of a saved icon
GlyphFont(e) == e.image.prims[Len(e.image.prims)].font

\* C6: when the font cannot be loaded create_icon goes on with the default
\* font; the run is never ended by the font load, only by makedirs or save;
\* and a run that ends without error has, with or without the font, written
\* both icons at their sizes and reported them.
C6_FontFallback ==
  /\ (pcI = "error") <=> (errI # "")
  /\ errI \in {"", "os.makedirs", "img.save"}
  /\ pcI \in {"text", "save", "print"} =>
       font = (IF env.fontOk THEN "truetype" ELSE "default")
  /\ pcI = "done" =>
       /\ IsSquarePng(fs[Icon192], 192)
       /\ IsSquarePng(fs[Icon512], 512)
       /\ GlyphFont(fs[Icon192]) = (IF env.fontOk THEN "truetype" ELSE "default")
       /\ GlyphFont(fs[Icon512]) = (IF env.fontOk THEN "truetype" ELSE "default")
       /\ outI = <<"Created client/public/icon-192x192.png",
                   "Created client/public/icon-512x512.png",
                   "PWA icons generated successfully!">>

\* the font was missing and the run has ended with both icons saved
C6_Witness ==
  /\ ~env.fontOk
  /\ pcI = "done"
  /\ GlyphFont(fs[Icon192]) = "default"
  /\ GlyphFont(fs[Icon512]) = "default"

\* C7: while the 512 icon is in hand the 192 icon is on disk, complete and
\* reported; when the 512 icon fails the run ends with the error, the 192
\* icon is still on disk as written, and the final message is not printed.
C7_NoRollback ==
  /\ call = 2 =>
       /\ IsSquarePng(fs[Icon192], 192)
       /\ Len(fs[Icon192].image.prims) = 9
       /\ outI[1] = "Created client/public/icon-192x192.png"
  /\ call = 1 => (Icon512 \notin WrittenPaths /\ fs[Icon512] = fs0[Icon512])
  /\ (pcI = "error" /\ call = 2) =>
       /\ errI = "img.save"
       /\ outI = <<"Created client/public/icon-192x192.png">>
       /\ WrittenPaths = {Icon192}

\* saving the 512 icon failed and left a truncated file; the 192 icon stays
C7_Witness ==
  /\ pcI = "error"
  /\ call = 2
  /\ fs[Icon512] = PartialFile
  /\ IsSquarePng(fs[Icon192], 192)

\* the canvas has its book rectangle
BookDrawn == Len(img.prims) >= 1 /\ img.prims[1].op = "rectangle"
Box == img.prims[1].xy
Side == img.size[1]
GapAbove == Box[2]
GapBelow == Side - Box[2] - (Box[4] - Box[2])

\* what C10 says of the rectangle apart from its vertical centring
BookInsetAndHeight ==
  /\ Side \in {192, 512}
  /\ Box[1] = Side \div 8
  /\ Box[3] = Side - (Side \div 8)
  /\ 10 * (Box[4] - Box[2]) <= 8 * (Box[3] - Box[1])
  /\ 10 * (Box[4] - Box[2] + 1) > 8 * (Box[3] - Box[1])
  /\ \A n \in 1 .. 4 : Box[n] >= 0 /\ Box[n] <= Side - 1

\* C10 as stated: the rectangle is inset by the margin left and right, its
\* height is 80% of its width truncated, it lies inside the canvas, and the
\* gap above it equals the gap below it. Violated at both sizes.
C10_Centered ==
  BookDrawn => (BookInsetAndHeight /\ GapAbove = GapBelow)

\* C10 amended: as stated, but the rectangle is centred only to within a
\* pixel: at both sizes the gap below it is one pixel more than the gap above.
C10_CenteredWithinOne ==
  BookDrawn => (BookInsetAndHeight /\ GapBelow = GapAbove + 1)

\* the rectangle of the 512 icon is drawn: 102 pixels above, 103 below
C10_Witness ==
  /\ BookDrawn
  /\ Side = 512
  /\ Box = <<64, 102, 448, 409>>
  /\ GapBelow = 103

(***************************************************************************)
(* The two scripts run together, checked under Spec.                       *)
(***************************************************************************)
\* the text a complete run of the Patcher leaves in a file that held t
Patched(t) == EveryOccurrenceFixed(LineEndingsAsLF(t))

\* the icon a complete create_icon(size, ...) saves with font f
Rendered(size, f) == draw_text(draw_book(Image_new(size), size), f)

FontInUse == IF env.fontOk THEN "truetype" ELSE "default"

\* what a failed save may leave at path p
SaveLeftovers(p) == {fs0[p], Absent, PartialFile}

\* the Patcher's file is as a run of the Patcher alone, ending as this one
\* ended, leaves it
StoryAsAlone ==
  /\ pcP = "done" =>
       (fs[story_path].kind = "text" /\ fs[story_path].data = Patched(fs0[story_path].data))
  /\ (pcP = "error" /\ errP \in {"FileNotFoundError", "PermissionError"}) =>
       fs[story_path] = fs0[story_path]
  /\ (pcP = "error" /\ errP = "OSError") =>
       /\ fs[story_path].kind = "text"
       /\ Len(fs[story_path].data) < Len(Patched(fs0[story_path].data))
       /\ fs[story_path].data =
            SubSeq(Patched(fs0[story_path].data), 1, Len(fs[story_path].data))

\* client/public is as a run of the Icon Generator alone, ending as this one
\* ended, leaves it
PublicAsAlone ==
  /\ fs[other_path] = fs0[other_path]
  /\ pcI = "done" =>
       /\ fs[public_dir] = Dir
       /\ \A k \in DOMAIN Calls :
            fs[call_path(k)] = PngFile(Rendered(call_size(k), FontInUse))
  /\ (pcI = "error" /\ errI = "os.makedirs") =>
       \A p \in Paths \ {story_path} : fs[p] = fs0[p]
  /\ (pcI = "error" /\ errI = "img.save") =>
       /\ fs[public_dir] = Dir
       /\ \A k \in DOMAIN Calls :
            /\ k < call => fs[call_path(k)] = PngFile(Rendered(call_size(k), FontInUse))
            /\ k = call => fs[call_path(k)] \in SaveLeftovers(call_path(k))
            /\ k > call => fs[call_path(k)] = fs0[call_path(k)]

BothEnded == pcP \in {"done", "error"} /\ pcI \in {"done", "error"}

\* C9: however the steps of the two scripts interleave, once both have ended
\* the file system is what the two scripts leave when run one after the
\* other: the Patcher's file as the Patcher alone leaves it, client/public as
\* the Icon Generator alone leaves it.
C9_InterleavingIsSequential ==
  BothEnded => (StoryAsAlone /\ PublicAsAlone)

\* both scripts have ended without error: two occurrences are fixed, the
\* directory that was missing holds both icons
C9_Witness ==
  /\ pcP = "done"
  /\ pcI = "done"
  /\ fs0[story_path].kind = "text"
  /\ Cardinality(Occurrences(fs0[story_path].data)) = 2
  /\ fs[story_path] # fs0[story_path]
  /\ fs0[public_dir] = Absent
  /\ fs[public_dir] = Dir

====
